---- MODULE Spec2Model ----
(***************************************************************************)
(* A model of michis_collection_cursor: CollectionCursor<Tape>, a cursor   *)
(* (an owned collection `inner` plus a position `pos`) over any collection *)
(* implementing IndexableCollection / IndexableCollectionMut, together     *)
(* with the trait implementations for Vec and VecDeque.                    *)
(*                                                                         *)
(* usize and isize are scaled down: usize is 0..UsizeMax and isize is      *)
(* IsizeMin..IsizeMax; checked arithmetic is modelled by its range check.  *)
(***************************************************************************)
EXTENDS Integers, Sequences, FiniteSets, TLC

VARIABLES
    kind,       \* the trait implementation of the wrapped collection
    inner,      \* CollectionCursor::inner
    pos,        \* CollectionCursor::pos
    viaGetMut,  \* TRUE once the length was changed through get_mut()
    last,       \* the last call: operation, argument, result, state before it
    prev,       \* the call before the last one, when it is a tracked operation
    usize_max,  \* usize::MAX of the machine the cursor runs on
    trace       \* the seeks made so far, recorded by SpecScenario only

\* ---------------------------------------------------------------- bounds
\* largest usize of the scaled-down machine
UsizeMax == 3
\* largest number of items a collection holds in the model
MaxLen == 3
\* number of distinct item values
NumValues == 2

IsizeMax == UsizeMax \div 2
IsizeMin == (0 - IsizeMax) - 1
Usize == 0..UsizeMax
Isize == IsizeMin..IsizeMax
Values == 0..(NumValues - 1)

\* a collection's len() is a usize: it never holds more than usize::MAX items
Capacity == IF MaxLen <= UsizeMax THEN MaxLen ELSE UsizeMax

\* the collections a cursor can wrap
Tapes == UNION {[1..n -> Values] : n \in 0..Capacity}

\* ------------------------------------------------- results of operations
Some(x) == [tag |-> "some", val |-> x]
None == [tag |-> "none", val |-> 0]
Unit == [tag |-> "unit", val |-> 0]
Bool(b) == [tag |-> "bool", val |-> IF b THEN 1 ELSE 0]
Panic == [tag |-> "panic", val |-> 0]
Tape(s) == [tag |-> "tape", val |-> s]

\* the SeekFrom enum
Start(p) == [mode |-> "Start", p |-> p]
End(p) == [mode |-> "End", p |-> p]
Current(p) == [mode |-> "Current", p |-> p]
SeekFrom == {Start(p) : p \in Usize} \cup {End(p) : p \in Isize} \cup {Current(p) : p \in Isize}
NoArg == [mode |-> "-", p |-> 0]
ItemArg(v) == [mode |-> "item", p |-> v]
TapeArg(c) == [mode |-> "tape", p |-> c]

\* ---------------------------------------------- trait implementations
\* Which `impl IndexableCollection(Mut) for ...` the wrapped collection uses.
ForwardKinds == {"alloc_Vec", "alloc_VecDeque"}
LegacyKinds == {"impls_Vec", "impls_VecDeque"}
Kinds == ForwardKinds \cup LegacyKinds

Min(a, b) == IF a <= b THEN a ELSE b
Max(a, b) == IF a >= b THEN a ELSE b

\* outcome of a collection method: the collection afterwards and the result
Out(s, r) == [inner |-> s, res |-> r]

\* usize::checked_add_signed
checked_add_signed_wrapping(u, i) == Some((u + i) % (usize_max + 1))
checked_add_signed(u, i) ==
    IF u + i < 0 \/ u + i > usize_max THEN None ELSE Some(u + i)

\* usize::checked_sub(1).unwrap_or_default()
last_index(n) == IF n - 1 < 0 THEN 0 ELSE n - 1

\* the collection's own insert(index, element) (Vec::insert, VecDeque::insert):
\* panics if index > len
native_insert(s, index, element) ==
    IF index > Len(s)
    THEN Out(s, Panic)
    ELSE Out(SubSeq(s, 1, index) \o <<element>> \o SubSeq(s, index + 1, Len(s)), Unit)

\* Vec::remove(index): panics if index >= len, else returns the item
vec_remove(s, index) ==
    IF index >= Len(s)
    THEN Out(s, Panic)
    ELSE Out(SubSeq(s, 1, index) \o SubSeq(s, index + 2, Len(s)), Some(s[index + 1]))

\* VecDeque::remove(index): None if index >= len
vecdeque_remove(s, index) ==
    IF index >= Len(s)
    THEN Out(s, None)
    ELSE Out(SubSeq(s, 1, index) \o SubSeq(s, index + 2, Len(s)), Some(s[index + 1]))

\* self[index] = element: panics if index >= len
index_assign(s, index, element) ==
    IF index >= Len(s)
    THEN Out(s, Panic)
    ELSE Out([s EXCEPT ![index + 1] = element], Unit)

\* IndexableCollection::len
len(k, s) == Len(s)

\* IndexableCollection::get_item and IndexableCollectionMut::get_item_mut
get_item_clamped(k, s, index) ==
    IF index < Len(s) THEN Some(s[index + 1]) ELSE IF Len(s) > 0 THEN Some(s[Len(s)]) ELSE None
get_item(k, s, index) ==
    IF index < Len(s) THEN Some(s[index + 1]) ELSE None

\* IndexableCollectionMut::set_item
set_item(k, s, index, element) ==
    IF k \in ForwardKinds
    THEN index_assign(s, index, element)
    ELSE native_insert(s, index, element)

\* insert_item (forward_resizable!)
insert_item_off_by_one(k, s, index, element) == native_insert(s, IF index < Len(s) THEN index + 1 ELSE index, element)
insert_item_clamped(k, s, index, element) == native_insert(s, Min(index, Len(s)), element)
insert_item(k, s, index, element) == native_insert(s, index, element)

\* remove_item
remove_item_last(k, s, index) ==
    IF index < Len(s) THEN vec_remove(s, Len(s) - 1) ELSE Out(s, None)
remove_item_unchecked(k, s, index) ==
    IF k \in {"alloc_Vec", "impls_Vec"} THEN vec_remove(s, index) ELSE vecdeque_remove(s, index)
remove_item(k, s, index) ==
    IF k \in {"alloc_Vec", "impls_Vec"}
    THEN IF index < Len(s) THEN vec_remove(s, index) ELSE Out(s, None)
    ELSE vecdeque_remove(s, index)

\* clear
clear_keeps_first(k, s) == SubSeq(s, 1, Min(1, Len(s)))
clear(k, s) == <<>>

\* ------------------------------------------------------------- the cursor
vars == <<kind, inner, pos, viaGetMut, last, prev, usize_max, trace>>

Call(o, a, r) == [op |-> o, arg |-> a, res |-> r, inner |-> inner, pos |-> pos]

\* the operations remembered for one more call
Tracked == {"insert_item_at_cursor", "new"}
NoCall == [op |-> "-", arg |-> NoArg, pos |-> 0]
Summary(c) == IF c.op \in Tracked THEN [op |-> c.op, arg |-> c.arg, pos |-> c.pos] ELSE NoCall

\* the call o(a) returned r
Record(o, a, r) ==
    /\ last' = Call(o, a, r)
    /\ prev' = Summary(last)
    /\ UNCHANGED usize_max

\* the desired position of a seek, before the bounds filter
desired_position(collection_len, cur, sf) ==
    CASE sf.mode = "Start" -> Some(sf.p)
      [] sf.mode = "End" -> checked_add_signed(collection_len, sf.p)
      [] sf.mode = "Current" -> checked_add_signed(cur, sf.p)

\* CollectionCursor::seek: the result; Some(new_pos) is committed to pos
seek_unfiltered(k, s, cur, sf) == desired_position(len(k, s), cur, sf)
seek_end_from_current(k, s, cur, sf) ==
    LET d == IF sf.mode = "End" THEN checked_add_signed(cur, sf.p) ELSE desired_position(len(k, s), cur, sf)
    IN IF d.tag = "some" /\ d.val <= len(k, s) THEN d ELSE None
seek_strict(k, s, cur, sf) ==
    LET d == desired_position(len(k, s), cur, sf)
    IN IF d.tag = "some" /\ d.val < len(k, s) THEN d ELSE None
seek_wrapping(k, s, cur, sf) ==
    LET d == CASE sf.mode = "Start" -> Some(sf.p)
               [] sf.mode = "End" -> checked_add_signed_wrapping(len(k, s), sf.p)
               [] sf.mode = "Current" -> checked_add_signed_wrapping(cur, sf.p)
    IN IF d.tag = "some" /\ d.val <= len(k, s) THEN d ELSE None
seek_current_from_end(k, s, cur, sf) ==
    LET d == IF sf.mode = "Current" THEN checked_add_signed(len(k, s), sf.p) ELSE desired_position(len(k, s), cur, sf)
    IN IF d.tag = "some" /\ d.val <= len(k, s) THEN d ELSE None
seek_current_zero_shortcut(k, s, cur, sf) ==
    LET d == desired_position(len(k, s), cur, sf)
    IN IF sf = Current(0) THEN Some(cur)
       ELSE IF d.tag = "some" /\ d.val <= len(k, s) THEN d ELSE None
seek(k, s, cur, sf) ==
    LET d == desired_position(len(k, s), cur, sf)
    IN IF d.tag = "some" /\ d.val <= len(k, s) THEN d ELSE None

\* CollectionCursor::clamp_to_last_item: the new pos
clamp_to_last_item_as_end(k, s, cur) == Min(cur, len(k, s))
clamp_to_last_item(k, s, cur) == Min(cur, last_index(len(k, s)))

\* CollectionCursor::clamp_to_end: the new pos
clamp_to_end_max(k, s, cur) == Max(cur, len(k, s))
clamp_to_end(k, s, cur) == Min(cur, len(k, s))

\* CollectionCursor::seek_to_start: the new pos
seek_to_start(k, s, cur) == 0

\* CollectionCursor::seek_relative
seek_relative(k, s, cur, offset) == seek(k, s, cur, Current(offset))

\* CollectionCursor::seek_backward_one: whether the cursor moved
seek_backward_one_unfiltered(k, s, cur) == seek_unfiltered(k, s, cur, Current(0 - 1))
seek_backward_one(k, s, cur) == seek_relative(k, s, cur, 0 - 1)

\* CollectionCursor::seek_forward_one: whether the cursor moved
seek_forward_one_wrapping(k, s, cur) == seek_wrapping(k, s, cur, Current(1))
seek_forward_one_strict(k, s, cur) == seek_strict(k, s, cur, Current(1))
seek_forward_one(k, s, cur) == seek_relative(k, s, cur, 1)

\* CollectionCursor::seek_to_last_item: the new pos
seek_to_last_item_wrapping(k, s, cur) == (len(k, s) + usize_max) % (usize_max + 1)
seek_to_last_item_end(k, s, cur) == len(k, s)
seek_to_last_item(k, s, cur) == last_index(len(k, s))

\* CollectionCursor::seek_to_end: the new pos
seek_to_end_last(k, s, cur) == last_index(len(k, s))
seek_to_end(k, s, cur) == len(k, s)

\* CollectionCursor::get_item_at_cursor
get_item_at_cursor_next(k, s, cur) == get_item(k, s, cur + 1)
get_item_at_cursor(k, s, cur) == get_item(k, s, cur)

\* CollectionCursor::get_item_at_cursor_mut
get_item_at_cursor_mut(k, s, cur) == get_item(k, s, cur)

\* CollectionCursor::set_item_at_cursor
set_item_at_cursor(k, s, cur, item) == set_item(k, s, cur, item)

\* CollectionCursor::insert_item_at_cursor
insert_item_at_cursor(k, s, cur, item) == insert_item(k, s, cur, item)

\* CollectionCursor::remove_item_at_cursor
remove_item_at_cursor(k, s, cur) == remove_item(k, s, cur)

\* CollectionCursor::new: the cursor it returns
new_at_end(c) == [inner |-> c, pos |-> Len(c)]
new(c) == [inner |-> c, pos |-> 0]

\* CollectionCursor::into_inner: the collection it returns
into_inner(k, s, cur) == s

\* the state after CollectionCursor::new(c)
Init ==
    /\ kind \in Kinds
    /\ \E c \in Tapes :
        /\ inner = new(c).inner
        /\ pos = new(c).pos
        /\ last = [op |-> "new", arg |-> TapeArg(c), res |-> Unit, inner |-> c, pos |-> 0]
    /\ viaGetMut = FALSE
    /\ prev = NoCall
    /\ usize_max = UsizeMax
    /\ trace = <<>>

\* a panic unwinds and into_inner consumes the cursor: nothing is called on it
\* afterwards
Alive == last.res.tag # "panic" /\ last.op # "into_inner"

\* a seek commits Some(new_pos) to pos and leaves the collection alone
Moved(o, a, r) ==
    /\ pos' = IF r.tag = "some" THEN r.val ELSE pos
    /\ Record(o, a, r)
    /\ UNCHANGED <<kind, inner, viaGetMut, trace>>

\* an operation that assigns pos unconditionally
Placed(o, p) ==
    /\ pos' = p
    /\ Record(o, NoArg, Unit)
    /\ UNCHANGED <<kind, inner, viaGetMut, trace>>

\* an operation forwarded to the collection at pos
Forwarded(o, a, out) ==
    /\ inner' = out.inner
    /\ Record(o, a, out.res)
    /\ UNCHANGED <<kind, pos, viaGetMut, trace>>

Seek ==
    /\ Alive
    /\ \E sf \in SeekFrom : Moved("seek", sf, seek(kind, inner, pos, sf))

SeekRelative ==
    /\ Alive
    /\ \E offset \in Isize :
        Moved("seek_relative", Current(offset), seek_relative(kind, inner, pos, offset))

SeekBackwardOne ==
    /\ Alive
    /\ LET r == seek_backward_one(kind, inner, pos)
       IN /\ pos' = IF r.tag = "some" THEN r.val ELSE pos
          /\ Record("seek_backward_one", NoArg, Bool(r.tag = "some"))
          /\ UNCHANGED <<kind, inner, viaGetMut, trace>>

SeekForwardOne ==
    /\ Alive
    /\ LET r == seek_forward_one(kind, inner, pos)
       IN /\ pos' = IF r.tag = "some" THEN r.val ELSE pos
          /\ Record("seek_forward_one", NoArg, Bool(r.tag = "some"))
          /\ UNCHANGED <<kind, inner, viaGetMut, trace>>

ClampToLastItem == Alive /\ Placed("clamp_to_last_item", clamp_to_last_item(kind, inner, pos))

ClampToEnd == Alive /\ Placed("clamp_to_end", clamp_to_end(kind, inner, pos))

SeekToStart_clearing ==
    /\ Alive
    /\ inner' = <<>>
    /\ pos' = 0
    /\ Record("seek_to_start", NoArg, Unit)
    /\ UNCHANGED <<kind, viaGetMut, trace>>

SeekToStart == Alive /\ Placed("seek_to_start", seek_to_start(kind, inner, pos))

SeekToLastItem == Alive /\ Placed("seek_to_last_item", seek_to_last_item(kind, inner, pos))

SeekToEnd == Alive /\ Placed("seek_to_end", seek_to_end(kind, inner, pos))

GetItemAtCursor ==
    /\ Alive
    /\ Forwarded("get_item_at_cursor", NoArg, Out(inner, get_item_at_cursor(kind, inner, pos)))

GetItemAtCursorMut ==
    /\ Alive
    /\ Forwarded("get_item_at_cursor_mut", NoArg, Out(inner, get_item_at_cursor_mut(kind, inner, pos)))

\* the collection never holds more than Capacity items in the model
Fits(out) == Len(out.inner) <= Capacity

SetItemAtCursor ==
    /\ Alive
    /\ \E item \in Values :
        LET out == set_item_at_cursor(kind, inner, pos, item)
        IN Fits(out) /\ Forwarded("set_item_at_cursor", ItemArg(item), out)

\* insert_item is implemented by forward_resizable! only
InsertItemAtCursor ==
    /\ Alive
    /\ kind \in ForwardKinds
    /\ \E item \in Values :
        LET out == insert_item_at_cursor(kind, inner, pos, item)
        IN Fits(out) /\ Forwarded("insert_item_at_cursor", ItemArg(item), out)

RemoveItemAtCursor ==
    /\ Alive
    /\ Forwarded("remove_item_at_cursor", NoArg, remove_item_at_cursor(kind, inner, pos))

\* CollectionCursor::clear
Clear ==
    /\ Alive
    /\ inner' = clear(kind, inner)
    /\ pos' = 0
    /\ Record("clear", NoArg, Unit)
    /\ UNCHANGED <<kind, viaGetMut, trace>>

\* CollectionCursor::get_mut, the caller pushing an item onto the collection
GetMutPush ==
    /\ Alive
    /\ Len(inner) < Capacity
    /\ \E item \in Values :
        /\ inner' = Append(inner, item)
        /\ Record("get_mut_push", ItemArg(item), Unit)
    /\ viaGetMut' = TRUE
    /\ UNCHANGED <<kind, pos, trace>>

\* CollectionCursor::get_mut, the caller truncating the collection
GetMutTruncate ==
    /\ Alive
    /\ \E n \in 0..(Len(inner) - 1) :
        /\ inner' = SubSeq(inner, 1, n)
        /\ Record("get_mut_truncate", [mode |-> "len", p |-> n], Unit)
    /\ viaGetMut' = TRUE
    /\ UNCHANGED <<kind, pos, trace>>

\* CollectionCursor::into_inner
IntoInner ==
    /\ Alive
    /\ Record("into_inner", NoArg, Tape(into_inner(kind, inner, pos)))
    /\ UNCHANGED <<kind, inner, pos, viaGetMut, trace>>

Next ==
    \/ Seek
    \/ SeekRelative
    \/ SeekBackwardOne
    \/ SeekForwardOne
    \/ ClampToLastItem
    \/ ClampToEnd
    \/ SeekToStart
    \/ SeekToLastItem
    \/ SeekToEnd
    \/ GetItemAtCursor
    \/ GetItemAtCursorMut
    \/ SetItemAtCursor
    \/ InsertItemAtCursor
    \/ RemoveItemAtCursor
    \/ Clear
    \/ GetMutPush
    \/ GetMutTruncate
    \/ IntoInner

Spec == Init /\ [][Next]_vars

\* ------------------------------------------------- the scenario of the tests
\* usize::MAX of the machine the scenario runs on
ScenarioUsizeMax == 15

\* collection_cursor_tests::test_vec
test_vec == <<0, 1, 2, 3, 4, 5, 9, 8, 7, 6>>

\* the seeks of the scenario, in order
Script == <<Start(3), Current(7), Current(1), End(0 - 1), End(1)>>

\* collection_cursor_tests::test_collection
ScenarioInit ==
    /\ kind \in Kinds
    /\ inner = test_vec
    /\ pos = 0
    /\ viaGetMut = FALSE
    /\ last = [op |-> "new", arg |-> NoArg, res |-> Unit, inner |-> inner, pos |-> 0]
    /\ prev = NoCall
    /\ usize_max = ScenarioUsizeMax
    /\ trace = <<>>

\* CollectionCursor::seek with one of the scenario's arguments
ScenarioSeek ==
    /\ Alive
    /\ Len(trace) < Len(Script)
    /\ \E i \in 1..Len(Script) :
        LET r == seek(kind, inner, pos, Script[i])
            p == IF r.tag = "some" THEN r.val ELSE pos
        IN /\ pos' = p
           /\ Record("seek", Script[i], r)
           /\ trace' = Append(trace, [arg |-> Script[i], res |-> r, pos |-> p])
    /\ UNCHANGED <<kind, inner, viaGetMut>>

ScenarioNext ==
    \/ ScenarioSeek

SpecScenario == ScenarioInit /\ [][ScenarioNext]_vars

\* ------------------------------------------------- runs of repeated calls
\* A cursor is created and placed, and then one operation is repeated, or an
\* operation is followed by the one that undoes it; every call is recorded in
\* trace with the position and the collection it leaves.

\* the largest number of calls in a run
RunLength == Capacity + 2

Logged(o, a, out, p) ==
    /\ inner' = out.inner
    /\ pos' = p
    /\ Record(o, a, out.res)
    /\ trace' = Append(trace, [op |-> o, arg |-> a, res |-> out.res, pos |-> p, inner |-> out.inner])
    /\ UNCHANGED <<kind, viaGetMut>>

LoggedSeek(o, a, r, shown) ==
    Logged(o, a, Out(inner, shown), IF r.tag = "some" THEN r.val ELSE pos)

Repeating(o) ==
    /\ Len(trace) >= 1
    /\ Len(trace) <= RunLength
    /\ (Len(trace) > 1) => (trace[2].op = o)

\* CollectionCursor::seek placing the cursor of a new collection
RunPlace ==
    /\ Alive
    /\ Len(trace) = 0
    /\ \E p \in Usize :
        LET r == seek(kind, inner, pos, Start(p))
        IN LoggedSeek("seek", Start(p), r, r)

\* CollectionCursor::seek_forward_one, repeated
RunForward ==
    /\ Alive
    /\ Repeating("seek_forward_one")
    /\ LET r == seek_forward_one(kind, inner, pos)
       IN LoggedSeek("seek_forward_one", NoArg, r, Bool(r.tag = "some"))

\* CollectionCursor::remove_item_at_cursor, repeated or right after an insert
RunRemove ==
    /\ Alive
    /\ \/ Repeating("remove_item_at_cursor")
       \/ (Len(trace) = 2 /\ trace[2].op = "insert_item_at_cursor")
    /\ Logged("remove_item_at_cursor", NoArg, remove_item_at_cursor(kind, inner, pos), pos)

\* CollectionCursor::insert_item_at_cursor on the placed cursor
RunInsert ==
    /\ Alive
    /\ Len(trace) = 1
    /\ kind \in ForwardKinds
    /\ \E item \in Values :
        LET out == insert_item_at_cursor(kind, inner, pos, item)
        IN Fits(out) /\ Logged("insert_item_at_cursor", ItemArg(item), out, pos)

\* CollectionCursor::seek(Current(p)) on the placed cursor, and once more
RunRelative ==
    /\ Alive
    /\ \/ Len(trace) = 1
       \/ (Len(trace) = 2 /\ trace[2].op = "seek")
    /\ \E offset \in Isize :
        LET r == seek(kind, inner, pos, Current(offset))
        IN LoggedSeek("seek", Current(offset), r, r)

RunNext ==
    \/ RunPlace
    \/ RunForward
    \/ RunRemove
    \/ RunInsert
    \/ RunRelative

SpecRuns == Init /\ [][RunNext]_vars

\* ------------------------------------------------------------ properties
\* the state before the last call
L0 == Len(last.inner)
P0 == last.pos
\* the target of a seek as a mathematical integer
MathTarget(sf) ==
    CASE sf.mode = "Start" -> sf.p
      [] sf.mode = "End" -> L0 + sf.p
      [] sf.mode = "Current" -> P0 + sf.p
IsSeek == last.op = "seek"
IsRelative == (last.op = "seek" /\ last.arg.mode = "Current") \/ last.op = "seek_relative"
Unmoved == pos = P0 /\ inner = last.inner

\* C1: as long as the length was never changed through get_mut, the position
\* stays within 0..len after every cursor operation.
C1_PositionInvariant == (~viaGetMut) => (0 <= pos /\ pos <= Len(inner))

C1_Witness ==
    /\ ~viaGetMut
    /\ last.op = "remove_item_at_cursor"
    /\ last.res.tag = "some"
    /\ pos > 0
    /\ pos = Len(inner)

\* C2: a seek whose target is negative, beyond len or not representable returns
\* None, moves nothing, changes nothing and does not panic.
C2_FailedSeekIsNoOp ==
    (IsSeek /\ (MathTarget(last.arg) < 0 \/ MathTarget(last.arg) > L0 \/ MathTarget(last.arg) > UsizeMax))
        => (last.res = None /\ Unmoved)

C2_Witness ==
    /\ IsSeek
    /\ last.arg.mode = "Current"
    /\ P0 + last.arg.p > UsizeMax
    /\ last.res = None
    /\ pos = P0

\* C3: seek(Start(p)) with p <= len returns Some(p) and puts the cursor at p,
\* wherever it was.
C3_SeekStart ==
    (IsSeek /\ last.arg.mode = "Start" /\ last.arg.p <= L0)
        => (last.res = Some(last.arg.p) /\ pos = last.arg.p)

C3_Witness ==
    /\ IsSeek
    /\ last.arg.mode = "Start"
    /\ last.arg.p = L0
    /\ L0 > 0
    /\ P0 # last.arg.p
    /\ pos = L0

\* C4: seek(End(p)) moves to len + p exactly when -len <= p <= 0, whatever the
\* current position, and otherwise returns None without moving.
C4_SeekEnd ==
    (IsSeek /\ last.arg.mode = "End")
        => IF 0 - L0 <= last.arg.p /\ last.arg.p <= 0
           THEN last.res = Some(L0 + last.arg.p) /\ pos = L0 + last.arg.p
           ELSE last.res = None /\ pos = P0

C4_Witness ==
    /\ IsSeek
    /\ last.arg.mode = "End"
    /\ last.arg.p < 0
    /\ P0 # L0
    /\ P0 # 0
    /\ last.res = Some(L0 + last.arg.p)
    /\ pos = L0 + last.arg.p

\* C5: seek(Current(p)) and seek_relative(p) move to pos + p exactly when
\* 0 <= pos + p <= len as integers; otherwise the result is None and the cursor
\* stays, never at a wrapped-around position.
C5_SeekCurrent ==
    IsRelative
        => IF 0 <= P0 + last.arg.p /\ P0 + last.arg.p <= L0
           THEN last.res = Some(P0 + last.arg.p) /\ pos = P0 + last.arg.p
           ELSE last.res = None /\ pos = P0

C5_Witness ==
    /\ last.op = "seek_relative"
    /\ P0 + last.arg.p > UsizeMax
    /\ (P0 + last.arg.p) % (UsizeMax + 1) <= L0
    /\ last.res = None
    /\ pos = P0

\* C6: set_item_at_cursor(v) at a position below len overwrites that one item:
\* same length, v at the position, every other item and the position unchanged.
C6_SetOverwrites ==
    (last.op = "set_item_at_cursor" /\ P0 < L0)
        => /\ Len(inner) = L0
           /\ pos = P0
           /\ \A i \in 1..Len(inner) :
                inner[i] = IF i = P0 + 1 THEN last.arg.p ELSE last.inner[i]

\* C7: set_item_at_cursor(v) at a position >= len panics and leaves the
\* collection as it was.
C7_SetOutOfBoundsPanics ==
    (last.op = "set_item_at_cursor" /\ P0 >= L0)
        => (last.res = Panic /\ inner = last.inner)

\* C8: insert_item_at_cursor(v) at p <= len grows the collection by one, puts v
\* at p, keeps the items before p, shifts the items from p on up by one and
\* leaves the cursor at p.
C8_InsertShifts ==
    (last.op = "insert_item_at_cursor" /\ P0 <= L0)
        => /\ last.res = Unit
           /\ Len(inner) = L0 + 1
           /\ pos = P0
           /\ inner[P0 + 1] = last.arg.p
           /\ \A i \in 1..P0 : inner[i] = last.inner[i]
           /\ \A i \in (P0 + 1)..L0 : inner[i + 1] = last.inner[i]

C8_Witness ==
    /\ last.op = "insert_item_at_cursor"
    /\ 0 < P0
    /\ P0 < L0
    /\ last.inner[P0 + 1] # last.arg.p
    /\ last.inner[P0] # last.arg.p
    /\ Len(inner) = L0 + 1

\* C9: get_item_at_cursor() right after insert_item_at_cursor(v) returns v, and
\* the cursor is still where it was before the insert.
C9_InsertGetRoundTrip ==
    (last.op = "get_item_at_cursor" /\ prev.op = "insert_item_at_cursor")
        => (last.res = Some(prev.arg.p) /\ pos = prev.pos)

C9_Witness ==
    /\ last.op = "get_item_at_cursor"
    /\ prev.op = "insert_item_at_cursor"
    /\ last.res = Some(prev.arg.p)
    /\ pos > 0
    /\ pos < Len(inner) - 1
    /\ inner[pos + 2] # prev.arg.p

\* C10: remove_item_at_cursor() at p < len returns the item at p, shrinks the
\* collection by one, keeps the items before p, shifts the items after p down
\* by one and leaves the cursor at p.
C10_RemoveShifts ==
    (last.op = "remove_item_at_cursor" /\ P0 < L0)
        => /\ last.res = Some(last.inner[P0 + 1])
           /\ Len(inner) = L0 - 1
           /\ pos = P0
           /\ \A i \in 1..P0 : inner[i] = last.inner[i]
           /\ \A i \in (P0 + 2)..L0 : inner[i - 1] = last.inner[i]

C10_Witness ==
    /\ last.op = "remove_item_at_cursor"
    /\ 0 < P0
    /\ P0 + 1 < L0
    /\ last.inner[P0 + 1] # last.inner[L0]
    /\ last.res = Some(last.inner[P0 + 1])
    /\ Len(inner) = L0 - 1

\* C11: remove_item_at_cursor() at a position >= len returns None without
\* panicking and leaves the collection and the position alone, whether the
\* collection's own remove panics (length-checked forwarding) or returns an
\* option.
C11_RemovePastEnd ==
    (last.op = "remove_item_at_cursor" /\ P0 >= L0)
        => (last.res = None /\ Unmoved)

C11_Witness ==
    /\ last.op = "remove_item_at_cursor"
    /\ kind = "alloc_Vec"
    /\ P0 > L0
    /\ L0 > 0
    /\ last.res = None
    /\ inner = last.inner

\* C12: get_item_at_cursor() and get_item_at_cursor_mut() return the item at
\* the position when it is below len and None otherwise, and change neither the
\* position nor the collection.
C12_GetAtCursor ==
    (last.op \in {"get_item_at_cursor", "get_item_at_cursor_mut"})
        => /\ last.res = IF P0 < L0 THEN Some(last.inner[P0 + 1]) ELSE None
           /\ Unmoved

C12_Witness ==
    /\ last.op = "get_item_at_cursor_mut"
    /\ P0 = L0
    /\ L0 > 0
    /\ last.res = None
    /\ Unmoved

\* C13: clear() leaves an empty collection and the position 0, from any state.
C13_Clear ==
    (last.op = "clear") => (Len(inner) = 0 /\ pos = 0)

C13_Witness ==
    /\ last.op = "clear"
    /\ L0 > 0
    /\ P0 > L0
    /\ Len(inner) = 0
    /\ pos = 0

\* C14: on [0,1,2,3,4,5,9,8,7,6] from position 0: seek(Start(3)) gives 3,
\* then seek(Current(7)) gives 10, then seek(Current(1)) fails at 10, then
\* seek(End(-1)) gives 9, then seek(End(1)) fails at 9.
C14_Expected ==
    << [res |-> Some(3), pos |-> 3],
       [res |-> Some(10), pos |-> 10],
       [res |-> None, pos |-> 10],
       [res |-> Some(9), pos |-> 9],
       [res |-> None, pos |-> 9] >>

C14_OnScript(n) == \A i \in 1..n : trace[i].arg = Script[i]

C14_ConcreteTrace ==
    \A n \in 1..Len(trace) :
        C14_OnScript(n)
            => /\ trace[n].res = C14_Expected[n].res
               /\ trace[n].pos = C14_Expected[n].pos
               /\ inner = test_vec

C14_Witness ==
    /\ Len(trace) = Len(Script)
    /\ C14_OnScript(Len(Script))
    /\ last.res = None
    /\ pos = 9

\* C15: seek_to_end() puts the cursor at len from any starting position and
\* leaves the collection alone.
C15_SeekToEnd ==
    (last.op = "seek_to_end") => (pos = L0 /\ inner = last.inner)

C15_Witness ==
    /\ last.op = "seek_to_end"
    /\ P0 > L0
    /\ L0 > 0
    /\ pos = L0

\* C16: seek_to_last_item() puts the cursor at len - 1 on a non-empty
\* collection and at 0 on an empty one, from any starting position.
C16_SeekToLastItem ==
    (last.op = "seek_to_last_item")
        => /\ pos = IF L0 > 0 THEN L0 - 1 ELSE 0
           /\ inner = last.inner

C16_Witness ==
    /\ last.op = "seek_to_last_item"
    /\ L0 = 0
    /\ P0 > 0
    /\ pos = 0

\* C17: clamp_to_end() brings a position above len down to len and leaves a
\* position <= len where it is; the collection is unchanged.
C17_ClampToEnd ==
    (last.op = "clamp_to_end")
        => /\ pos = IF P0 > L0 THEN L0 ELSE P0
           /\ inner = last.inner

C17_Witness ==
    /\ last.op = "clamp_to_end"
    /\ P0 > L0
    /\ L0 > 0
    /\ pos = L0

\* C18: clamp_to_last_item() leaves a position at or before the last item,
\* brings any larger position down to len - 1, and gives 0 on an empty
\* collection.
C18_ClampToLastItem ==
    (last.op = "clamp_to_last_item")
        => /\ pos = IF L0 = 0 THEN 0 ELSE IF P0 <= L0 - 1 THEN P0 ELSE L0 - 1
           /\ inner = last.inner

C18_Witness ==
    /\ last.op = "clamp_to_last_item"
    /\ L0 > 0
    /\ P0 = L0
    /\ pos = L0 - 1

\* C19: seek_forward_one() returns true and advances by one exactly when the
\* position was below len; otherwise it returns false and does not move, also
\* at the largest usize.
C19_SeekForwardOne ==
    (last.op = "seek_forward_one")
        => IF P0 < L0
           THEN last.res = Bool(TRUE) /\ pos = P0 + 1
           ELSE last.res = Bool(FALSE) /\ pos = P0

C19_Witness ==
    /\ last.op = "seek_forward_one"
    /\ P0 = UsizeMax
    /\ P0 > L0
    /\ last.res = Bool(FALSE)
    /\ pos = P0

\* C20: seek_backward_one() returns false and stays at position 0; from a
\* position in 1..len it returns true and moves back by one; when position - 1
\* is still above len it returns false without moving.
C20_SeekBackwardOne ==
    (last.op = "seek_backward_one")
        => /\ (P0 = 0) => (last.res = Bool(FALSE) /\ pos = 0)
           /\ (0 < P0 /\ P0 <= L0) => (last.res = Bool(TRUE) /\ pos = P0 - 1)
           /\ (P0 - 1 > L0) => (last.res = Bool(FALSE) /\ pos = P0)

C20_Witness ==
    /\ last.op = "seek_backward_one"
    /\ P0 - 1 > L0
    /\ last.res = Bool(FALSE)
    /\ pos = P0

\* the position a seek would leave the cursor at, from the state before the
\* last call
PosAfterSeek(sf) ==
    LET r == seek(kind, last.inner, P0, sf)
    IN IF r.tag = "some" THEN r.val ELSE P0

C21_SamePosition ==
    /\ (last.op = "seek_to_last_item")
        => (pos = PosAfterSeek(End(0 - 1)) /\ inner = last.inner)
    /\ (IsSeek /\ last.arg = End(0 - 1))
        => (pos = seek_to_last_item(kind, last.inner, P0) /\ inner = last.inner)

C22_InsertOutOfBoundsPanics ==
    (last.op = "insert_item_at_cursor" /\ P0 > L0)
        => (last.res = Panic /\ Unmoved)

C22_Witness ==
    /\ last.op = "insert_item_at_cursor"
    /\ P0 > L0
    /\ L0 > 0
    /\ last.res = Panic
    /\ inner = last.inner

\* C23: new(c) gives a cursor at position 0 wrapping c item for item, and
\* into_inner() on that cursor returns c.
C23_NewAndIntoInner ==
    /\ (last.op = "new") => (pos = 0 /\ inner = last.arg.p)
    /\ (last.op = "into_inner" /\ prev.op = "new") => (last.res = Tape(prev.arg.p))

C23_Witness ==
    /\ last.op = "into_inner"
    /\ prev.op = "new"
    /\ Len(prev.arg.p) > 1
    /\ last.res = Tape(prev.arg.p)

\* C24: a seek that returns Some(n) has n <= len and leaves the cursor at n;
\* while the position is above len every seek(Current(p)) with p >= 0 returns
\* None, so seek(Current(0)) succeeds exactly when the position is <= len.
C24_SeekEstablishesInvariant ==
    IsSeek
        => /\ (last.res.tag = "some") => (last.res.val <= L0 /\ pos = last.res.val)
           /\ (last.arg.mode = "Current" /\ last.arg.p >= 0 /\ P0 > L0) => (last.res = None)
           /\ (last.arg = Current(0)) => ((last.res.tag = "some") <=> (P0 <= L0))

C24_Witness ==
    /\ IsSeek
    /\ last.arg = Current(0)
    /\ P0 > L0
    /\ last.res = None
    /\ pos = P0

\* the operations that only move the cursor
Movements ==
    {"seek", "seek_relative", "seek_to_start", "seek_to_end", "seek_to_last_item",
     "seek_forward_one", "seek_backward_one", "clamp_to_last_item", "clamp_to_end"}

\* C25: the seeks and clamps never change the collection's length or items.
C25_MovementFrame == (last.op \in Movements) => (inner = last.inner)

C25_Witness ==
    /\ last.op = "seek_to_start"
    /\ L0 > 0
    /\ P0 > L0
    /\ pos = 0
    /\ inner = last.inner

\* the placed cursor a run starts from: its position and its collection
RunP == trace[1].pos
RunTape == trace[1].inner
RunL == Len(RunTape)
IsRun(o) == Len(trace) > 1 /\ trace[2].op = o

\* C26: from position p on a collection of length L, the first L - p calls of
\* seek_forward_one() return true and advance by one, and every later call
\* returns false with the cursor staying at L.
C26_ForwardTraversal ==
    IsRun("seek_forward_one")
        => \A n \in 2..Len(trace) :
            IF n - 1 <= RunL - RunP
            THEN trace[n].res = Bool(TRUE) /\ trace[n].pos = RunP + (n - 1)
            ELSE trace[n].res = Bool(FALSE) /\ trace[n].pos = RunL

C26_Witness ==
    /\ IsRun("seek_forward_one")
    /\ RunP > 0
    /\ RunP < RunL
    /\ Len(trace) >= (RunL - RunP) + 3
    /\ trace[Len(trace) - 1].res = Bool(FALSE)
    /\ last.res = Bool(FALSE)
    /\ pos = RunL

\* C27: from position p on a collection of length L, the first L - p calls of
\* remove_item_at_cursor() return the original items p, p+1, ..., L-1 in that
\* order and every later call returns None; the position stays p and the items
\* before p stay, so that p items are left.
C27_Drain ==
    IsRun("remove_item_at_cursor")
        => \A n \in 2..Len(trace) :
            /\ trace[n].pos = RunP
            /\ \A i \in 1..RunP : trace[n].inner[i] = RunTape[i]
            /\ IF n - 1 <= RunL - RunP
               THEN /\ trace[n].res = Some(RunTape[RunP + (n - 1)])
                    /\ Len(trace[n].inner) = RunL - (n - 1)
               ELSE /\ trace[n].res = None
                    /\ Len(trace[n].inner) = RunP

C27_Witness ==
    /\ IsRun("remove_item_at_cursor")
    /\ RunP > 0
    /\ RunP + 2 <= RunL
    /\ RunTape[RunP + 1] # RunTape[RunP + 2]
    /\ Len(trace) >= (RunL - RunP) + 3
    /\ last.res = None
    /\ Len(inner) = RunP

\* C28: insert_item_at_cursor(v) followed at once by remove_item_at_cursor()
\* returns Some(v) and restores the collection and the position.
C28_InsertRemoveRoundTrip ==
    (IsRun("insert_item_at_cursor") /\ Len(trace) > 2)
        => /\ trace[3].op = "remove_item_at_cursor"
           /\ trace[3].res = Some(trace[2].arg.p)
           /\ trace[3].inner = RunTape
           /\ trace[3].pos = RunP

C28_Witness ==
    /\ IsRun("insert_item_at_cursor")
    /\ Len(trace) = 3
    /\ RunP > 0
    /\ RunP < RunL
    /\ RunTape[RunP + 1] # trace[2].arg.p
    /\ last.res = Some(trace[2].arg.p)
    /\ inner = RunTape

\* C29: when seek(Current(p)) succeeds, seek(Current(-p)) right after it
\* succeeds too and brings the cursor back to where it was.
C29_RelativeRoundTrip ==
    (IsRun("seek") /\ Len(trace) > 2 /\ trace[2].res.tag = "some"
        /\ trace[3].arg = Current(0 - trace[2].arg.p))
        => /\ trace[3].res = Some(RunP)
           /\ trace[3].pos = RunP

C29_Witness ==
    /\ IsRun("seek")
    /\ Len(trace) = 3
    /\ trace[2].res.tag = "some"
    /\ trace[2].arg.p < 0
    /\ trace[3].arg = Current(0 - trace[2].arg.p)
    /\ RunP = RunL
    /\ pos = RunP

TypeOK ==
    /\ kind \in Kinds
    /\ inner \in Tapes
    /\ pos \in Usize
    /\ viaGetMut \in BOOLEAN
    /\ last.inner \in Tapes
    /\ last.pos \in Usize
    /\ usize_max = UsizeMax
    /\ trace = <<>>
====
